---- MODULE Spec2Model ----
(***************************************************************************)
(* ldns-zone-digest: the zone store (flat list, or hash tree in the        *)
(* ZONEMD_INCREMENTAL build), the digest computation over it, and the      *)
(* phases of main(): read zone, add placeholders, calculate, verify,       *)
(* update, recalculate, write.                                             *)
(*                                                                         *)
(* Bytes are integers.  A name is its sequence of labels, leftmost first,  *)
(* each label one character (its ASCII code).  SHA-384 is an ideal hash:   *)
(* the digest of a byte stream is that stream between two marks that are   *)
(* no byte, so that two digests are equal exactly when the streams are.    *)
(* A digest block (EVP_MD_size bytes) is one such value; the all-zero      *)
(* block is <<0>> and the all-0xFF block is <<255>>.                       *)
(***************************************************************************)
EXTENDS Integers, Sequences, FiniteSets, TLC

\* ------------------------------------------------------------ bounds
MaxLoad == 2   \* RRs in the zone file besides the SOA
MaxUpd == 1    \* lines in the update file

\* ------------------------------------------------------------ constants
ZONEMD_RR_TYPE == 63
LDNS_RR_TYPE_A == 1
LDNS_RR_TYPE_SOA == 6
LDNS_RR_TYPE_RRSIG == 46
LDNS_RR_CLASS_IN == 1

\* ------------------------------------------------------------ names
\* the origin given on the command line: "e."
Origin == <<101>>

\* tolower() as ldns_dname_compare applies it to every label byte
Lower(c) == IF c \in 65..90 THEN c + 32 ELSE c

\* ldns_rdf2str of a name: the labels as written, each followed by a dot
rdf2str(name) ==
    IF name = <<>> THEN <<46>>
    ELSE [i \in 1..(2 * Len(name)) |->
             IF i % 2 = 1 THEN name[(i + 1) \div 2] ELSE 46]

\* the name on the wire: every label with its length, then the root label;
\* the case of the label is kept
dname2wire(name) ==
    [i \in 1..(2 * Len(name) + 1) |->
        IF i = 2 * Len(name) + 1 THEN 0
        ELSE IF i % 2 = 1 THEN 1 ELSE name[i \div 2]]

\* ldns_dname_compare: labels from the rightmost, case-insensitively;
\* -1, 0 or 1
RECURSIVE ldns_dname_compare(_, _)
ldns_dname_compare(a, b) ==
    IF a = <<>> /\ b = <<>> THEN 0
    ELSE IF a = <<>> THEN -1
    ELSE IF b = <<>> THEN 1
    ELSE LET la == Lower(a[Len(a)])
             lb == Lower(b[Len(b)])
         IN  IF la < lb THEN -1
             ELSE IF la > lb THEN 1
             ELSE ldns_dname_compare(SubSeq(a, 1, Len(a) - 1),
                                     SubSeq(b, 1, Len(b) - 1))

\* ldns_dname_is_subdomain(sub, parent): sub has more labels than parent
\* and ends with the labels of parent
ldns_dname_is_subdomain(sub, parent) ==
    /\ Len(sub) > Len(parent)
    /\ ldns_dname_compare(SubSeq(sub, Len(sub) - Len(parent) + 1, Len(sub)),
                          parent) = 0

\* ------------------------------------------------------------ records
\* An RR is [id, owner, type, ttl, rd]; id stands for the address of the
\* ldns_rr object (lists hold pointers), rd is the rdata:
\*   SOA     <<serial>>
\*   ZONEMD  <<serial, digest type, parameter>> \o digest
\*   RRSIG   <<type covered>> \o signature
\*   A       <<address>>
MkRR(id, owner, type, rd) ==
    [id |-> id, owner |-> owner, type |-> type, ttl |-> 3600, rd |-> rd]

ZeroDigest == <<0>>
OnesDigest == <<255>>

\* byte-wise comparison at the first byte that differs, the shorter first
\* when one is a prefix of the other
BytesCompare(x, y) ==
    LET n == IF Len(x) < Len(y) THEN Len(x) ELSE Len(y)
    IN  IF \A i \in 1..n : x[i] = y[i]
        THEN (IF Len(x) < Len(y) THEN -1 ELSE IF Len(x) > Len(y) THEN 1 ELSE 0)
        ELSE LET k == CHOOSE i \in 1..n : x[i] # y[i] /\ \A j \in 1..(i - 1) : x[j] = y[j]
             IN  IF x[k] < y[k] THEN -1 ELSE 1

\* ldns_rr_compare: owner name, class, type, then rdata; the TTL and the
\* case of the owner take no part
ldns_rr_compare(a, b) ==
    LET c == ldns_dname_compare(a.owner, b.owner)
    IN  IF c # 0 THEN c
        ELSE IF a.type < b.type THEN -1
        ELSE IF a.type > b.type THEN 1
        ELSE BytesCompare(a.rd, b.rd)

\* ldns_rr_list_sort: RRs that compare equal keep their order
RECURSIVE SortInsert(_, _)
SortInsert(rr, sorted) ==
    IF sorted = <<>> THEN <<rr>>
    ELSE IF ldns_rr_compare(rr, Head(sorted)) < 0 THEN <<rr>> \o sorted
    ELSE <<Head(sorted)>> \o SortInsert(rr, Tail(sorted))

RECURSIVE SortFrom(_, _)
SortFrom(rest, sorted) ==
    IF rest = <<>> THEN sorted
    ELSE SortFrom(Tail(rest), SortInsert(Head(rest), sorted))

ldns_rr_list_sort(rrlist) == SortFrom(rrlist, <<>>)

\* ldns_rr2wire: owner, type, class, TTL, rdata length, rdata
ldns_rr2wire(rr) ==
    dname2wire(rr.owner) \o <<rr.type, LDNS_RR_CLASS_IN, rr.ttl, Len(rr.rd)>> \o rr.rd

\* ------------------------------------------------------------ ZONEMD codec
\* zonemd_rr_unpack
rr_serial(rr) == rr.rd[1]
rr_digest_type(rr) == rr.rd[2]
rr_digest(rr) == SubSeq(rr.rd, 4, Len(rr.rd))

\* zonemd_rr_pack: the parameter is written as 0
zonemd_rr_pack(rr, serial, digest_type, digest) ==
    [rr EXCEPT !.rd = <<serial, digest_type, 0>> \o digest]

\* zonemd_rr_update_digest, called with the digest type found in rr
zonemd_rr_update_digest(rr, new_digest) ==
    zonemd_rr_pack(rr, rr_serial(rr), rr_digest_type(rr), new_digest)

\* zonemd_digester: only type 1 (sha384) has a digester
zonemd_digester(type) == type = 1

\* my_typecovered
my_typecovered(rrsig) == rrsig.rd[1]

\* the message digest of what was fed to the context
Hash(stream) == <<-1>> \o stream \o <<-2>>

\* ------------------------------------------------------------ canonicalizer
\* the copy of an apex ZONEMD that is hashed: digest zeroed, of the length
\* of the digester when there is one, else of the stored length
ZeroizedCopy(rr) ==
    zonemd_rr_pack(rr, rr_serial(rr), rr_digest_type(rr),
        IF zonemd_digester(rr_digest_type(rr)) THEN ZeroDigest
        ELSE [i \in 1..Len(rr_digest(rr)) |-> 0])

\* the loop of zonemd_rrlist_digest over the sorted list from index i on;
\* p is the index of prev (0: none); the result is what is fed to the context
RECURSIVE DigestLoop(_, _, _)

\* a loop that never takes l[i] for a duplicate of prev
NeverDuplicate(l, i, p) == FALSE

\* "prev && ldns_rr_compare(rr, prev) == 0"
IsDuplicate(l, i, p) == p # 0 /\ ldns_rr_compare(l[i], l[p]) = 0

DigestLoop(l, i, p) ==
    IF i > Len(l) THEN <<>>
    ELSE IF IsDuplicate(l, i, p) THEN DigestLoop(l, i + 1, p)
    ELSE IF l[i].type = LDNS_RR_TYPE_RRSIG /\ my_typecovered(l[i]) = ZONEMD_RR_TYPE
         THEN DigestLoop(l, i + 1, i)
    ELSE IF l[i].type = ZONEMD_RR_TYPE /\ ldns_dname_compare(l[i].owner, Origin) = 0
         THEN ldns_rr2wire(ZeroizedCopy(l[i])) \o DigestLoop(l, i + 1, i)
    ELSE ldns_rr2wire(l[i]) \o DigestLoop(l, i + 1, i)

\* zonemd_rrlist_digest: sorts the list it is given (in place) and feeds the
\* context; this is what it feeds
zonemd_rrlist_digest(rrlist) == DigestLoop(ldns_rr_list_sort(rrlist), 1, 0)

\* ------------------------------------------------------------ state
VARIABLES
    mode,                   \* "flat", or "tree" for the ZONEMD_INCREMENTAL build
    zonemd_tree_max_depth,  \* -D
    zonemd_tree_max_width,  \* -W
    algorithms,             \* the -p digest types, in order
    calculate,              \* -c
    verify,                 \* -v
    zsk,                    \* -z given
    the_rrlist,             \* the flat store
    theTree,                \* the tree store: path from the root |-> node
    the_soa,                \* the SOA of the zone
    next_id,                \* the next RR object
    pc,                     \* where main() is
    rc,                     \* main's exit code
    err,                    \* the fatal error that ended the run, or "none"
    calcs,                  \* history: every zonemd_calc_digest call from
                            \* do_calculate and do_verify, what it returned in
                            \* md_buf and the store contents it ran on
    update_file,            \* history: the lines of the update file read
    output                  \* the zone as written by zonemd_write_zone

vars == <<mode, zonemd_tree_max_depth, zonemd_tree_max_width, algorithms,
          calculate, verify, zsk, the_rrlist, theTree, the_soa, next_id, pc,
          rc, err, calcs, update_file, output>>

\* ------------------------------------------------------------ tree
\* a node as calloc leaves it: no list, zero digest, not dirty
NewNode == [rrlist |-> <<>>, digest |-> ZeroDigest, dirty |-> FALSE]

\* zonemd_tree_branch_by_name
zonemd_tree_branch_by_name(depth, name) ==
    IF Len(name) = 0 THEN 0
    ELSE name[(depth % Len(name)) + 1] % zonemd_tree_max_width

\* the branches zonemd_tree_get_leaf_by_name takes from the root
LeafPath(name) ==
    [d \in 1..zonemd_tree_max_depth |-> zonemd_tree_branch_by_name(d - 1, name)]

\* a walk to the leaf that sets only the leaf dirty, none of its ancestors
LeafOnlyDirty(t, name) ==
    [p \in (DOMAIN t) \cup {SubSeq(LeafPath(name), 1, k) : k \in 0..zonemd_tree_max_depth} |->
        IF p = LeafPath(name)
        THEN [(IF p \in DOMAIN t THEN t[p] ELSE NewNode) EXCEPT !.dirty = TRUE]
        ELSE IF p \in DOMAIN t THEN t[p] ELSE NewNode]

\* zonemd_tree_get_leaf_by_name from the root: every node on the way to the
\* leaf is created when missing and set dirty; the leaf is LeafPath(name)
zonemd_tree_get_leaf_by_name(t, name) ==
    LET onpath == {SubSeq(LeafPath(name), 1, k) : k \in 0..zonemd_tree_max_depth}
    IN  [p \in (DOMAIN t) \cup onpath |->
            IF p \in onpath
            THEN [(IF p \in DOMAIN t THEN t[p] ELSE NewNode) EXCEPT !.dirty = TRUE]
            ELSE t[p]]

\* zonemd_tree_get_leaf_by_owner
zonemd_tree_get_leaf_by_owner(t, owner) ==
    zonemd_tree_get_leaf_by_name(t, rdf2str(owner))

\* zonemd_tree_add_rr
zonemd_tree_add_rr(t, rr) ==
    LET t1 == zonemd_tree_get_leaf_by_owner(t, rr.owner)
    IN  [t1 EXCEPT ![LeafPath(rdf2str(rr.owner))].rrlist = Append(@, rr)]

\* zonemd_tree_full_rrlist: the lists of the leaves, branches in index order
RECURSIVE zonemd_tree_full_rrlist(_, _)
RECURSIVE FullKids(_, _, _)
FullKids(t, p, branch) ==
    IF branch >= zonemd_tree_max_width THEN <<>>
    ELSE zonemd_tree_full_rrlist(t, Append(p, branch)) \o FullKids(t, p, branch + 1)

zonemd_tree_full_rrlist(t, p) ==
    IF p \notin DOMAIN t THEN <<>>
    ELSE IF zonemd_tree_max_depth > Len(p) THEN FullKids(t, p, 0)
    ELSE t[p].rrlist

\* ------------------------------------------------------------ store
\* A store is [l |-> the flat list, t |-> the tree]; the build decides which
\* of the two the operations use.

\* zonemd_add_rr
zonemd_add_rr(st, rr) ==
    IF mode = "flat" THEN [st EXCEPT !.l = Append(@, rr)]
    ELSE [st EXCEPT !.t = zonemd_tree_add_rr(@, rr)]

\* what zonemd_remove_rr keeps in the list it goes through
Kept(rr, type, covered) ==
    \/ ldns_dname_compare(rr.owner, Origin) # 0
    \/ rr.type # type
    \/ type = LDNS_RR_TYPE_RRSIG /\ my_typecovered(rr) # covered

\* zonemd_remove_rr: the flat list, or the list of the leaf of the origin
zonemd_remove_rr(st, type, covered) ==
    IF mode = "flat"
    THEN [st EXCEPT !.l = SelectSeq(@, LAMBDA rr : Kept(rr, type, covered))]
    ELSE LET t1 == zonemd_tree_get_leaf_by_owner(st.t, Origin)
         IN  [st EXCEPT !.t = [t1 EXCEPT ![LeafPath(rdf2str(Origin))].rrlist =
                                 SelectSeq(@, LAMBDA rr : Kept(rr, type, covered))]]

\* the apex ZONEMD RRs of a list, in list order
ApexZonemds(rrlist) ==
    SelectSeq(rrlist, LAMBDA rr : /\ rr.type = ZONEMD_RR_TYPE
                                  /\ ldns_dname_compare(rr.owner, Origin) = 0)

\* zonemd_rr_find: the store after the call and the RRs found
zonemd_rr_find(st) ==
    IF mode = "flat" THEN [st |-> st, found |-> ApexZonemds(st.l)]
    ELSE LET t1 == zonemd_tree_get_leaf_by_owner(st.t, Origin)
         IN  [st |-> [st EXCEPT !.t = t1],
              found |-> ApexZonemds(t1[LeafPath(rdf2str(Origin))].rrlist)]

\* every RR of the store: the flat list, or the leaves' lists in tree order
StoreRRs(st) == IF mode = "flat" THEN st.l ELSE zonemd_tree_full_rrlist(st.t, <<>>)

\* ------------------------------------------------------------ digest
\* zonemd_calc_digest on a tree node p, called with some buffer buf: the tree
\* after the call, whether buf was written, and what was written to it.
\* A node that is not dirty returns at once and leaves buf alone.  A node
\* above the leaves hands its own digest field to each kid as the kid's buf
\* and then feeds that field to its context.
RECURSIVE TreeCalc(_, _)
RECURSIVE TreeCalcKids(_, _, _, _)

\* the tree once the call on a kid of p has returned r: the kid wrote p's
\* digest field, or left it alone
AfterKid(p, r) == IF r.wrote THEN [r.t EXCEPT ![p].digest = r.val] ELSE r.t

\* the rest of the loop over the kids of p, the digest field of p fed
KidsFed(t, p, branch, ctx) == TreeCalcKids(t, p, branch + 1, ctx \o t[p].digest)

TreeCalcKids(t, p, branch, ctx) ==
    IF branch >= zonemd_tree_max_width THEN [t |-> t, ctx |-> ctx]
    ELSE IF Append(p, branch) \notin DOMAIN t THEN TreeCalcKids(t, p, branch + 1, ctx)
    ELSE KidsFed(AfterKid(p, TreeCalc(t, Append(p, branch))), p, branch, ctx)

\* EVP_DigestFinal_ex into buf and "node->dirty = false", k the kids' loop
NodeFinal(p, k) ==
    [t |-> [k.t EXCEPT ![p].dirty = FALSE], wrote |-> TRUE, val |-> Hash(k.ctx)]

\* a tree in which also the nodes at the maximal depth hash their kids
IsInteriorAtMaxDepth(p) == zonemd_tree_max_depth >= Len(p)

\* "zonemd_tree_max_depth > node->depth"
IsInterior(p) == zonemd_tree_max_depth > Len(p)

TreeCalc(t, p) ==
    IF ~t[p].dirty THEN [t |-> t, wrote |-> FALSE, val |-> <<>>]
    ELSE IF IsInterior(p)
    THEN NodeFinal(p, TreeCalcKids(t, p, 0, <<>>))
    ELSE [t |-> [t EXCEPT ![p].rrlist = ldns_rr_list_sort(@), ![p].dirty = FALSE],
          wrote |-> TRUE,
          val |-> Hash(zonemd_rrlist_digest(t[p].rrlist))]

\* the root's call returned r, its buf being theTree->digest
RootResult(st, r) ==
    [st |-> [st EXCEPT !.t = AfterKid(<<>>, r)], md_buf |-> AfterKid(<<>>, r)[<<>>].digest]

\* zonemd_calc_digest as do_calculate and do_verify call it: on the flat
\* list with a fresh md_buf, on the tree with arg = theTree and
\* md_buf = theTree->digest.  The store after the call, and md_buf.
zonemd_calc_digest(st) ==
    IF mode = "flat"
    THEN [st |-> [st EXCEPT !.l = ldns_rr_list_sort(@)],
          md_buf |-> Hash(zonemd_rrlist_digest(st.l))]
    ELSE RootResult(st, TreeCalc(st.t, <<>>))

\* zonemd_rr_update_digest on the RR object id, wherever the store holds it
UpdateList(rrlist, id, digest) ==
    [i \in DOMAIN rrlist |->
        IF rrlist[i].id = id THEN zonemd_rr_update_digest(rrlist[i], digest)
        ELSE rrlist[i]]

UpdateById(st, id, digest) ==
    [l |-> UpdateList(st.l, id, digest),
     t |-> [p \in DOMAIN st.t |->
              [st.t[p] EXCEPT !.rrlist = UpdateList(@, id, digest)]]]

\* the RR objects of found as the list l holds them now
LookupIn(l, found) ==
    [i \in DOMAIN found |-> l[CHOOSE j \in DOMAIN l : l[j].id = found[i].id]]

Lookup(st, found) == LookupIn(StoreRRs(st), found)

RECURSIVE WireOf(_)
WireOf(rrlist) ==
    IF rrlist = <<>> THEN <<>> ELSE ldns_rr2wire(Head(rrlist)) \o WireOf(Tail(rrlist))

\* zonemd_resign: ldns_sign_public gives no signature for an empty RRset
\* (fatal); else the RRSIG over ZONEMD at the apex is replaced by the new
\* one, whose signature is a function of the RRset signed
zonemd_resign(st, rrset, id) ==
    IF rrset = <<>> THEN [st |-> st, err |-> "sign"]
    ELSE [st |-> zonemd_add_rr(zonemd_remove_rr(st, LDNS_RR_TYPE_RRSIG, ZONEMD_RR_TYPE),
                               MkRR(id, rrset[1].owner, LDNS_RR_TYPE_RRSIG,
                                    <<ZONEMD_RR_TYPE, -3>> \o WireOf(rrset))),
          err |-> "none"]

\* the loop of do_calculate over the RRs found, from the i-th on
RECURSIVE CalculateLoop(_, _, _, _)

\* zonemd_calc_digest on st returned c: the digest goes into the i-th RR
Calculated(st, found, i, log, c) ==
    CalculateLoop(UpdateById(c.st, found[i].id, c.md_buf), found, i + 1,
                  Append(log, [op |-> "calculate", before |-> StoreRRs(st),
                               digest |-> c.md_buf]))

CalculateLoop(st, found, i, log) ==
    IF i > Len(found) THEN [st |-> st, err |-> "none", log |-> log]
    ELSE IF ~zonemd_digester(rr_digest_type(found[i]))
    THEN [st |-> st, err |-> "assert", log |-> log]
    ELSE Calculated(st, found, i, log, zonemd_calc_digest(st))

\* the end of do_calculate, s what zonemd_resign returned
Resigned(r, s) == [st |-> s.st, err |-> s.err, log |-> r.log]

\* do_calculate after its loop, which returned r
AfterCalculateLoop(f, r, id) ==
    IF r.err # "none" \/ ~zsk THEN r
    ELSE Resigned(r, zonemd_resign(r.st, Lookup(r.st, f.found), id))

\* do_calculate after zonemd_rr_find, which returned f
AfterFind(f, id) == AfterCalculateLoop(f, CalculateLoop(f.st, f.found, 1, <<>>), id)

\* do_calculate: zonemd_rr_find never returns a null list, so the loop runs
\* over whatever was found, also over nothing
do_calculate(st, id) == AfterFind(zonemd_rr_find(st), id)

\* the loop of do_verify over the RRs found, from the i-th on
RECURSIVE VerifyLoop(_, _, _, _, _)

\* zonemd_calc_digest on st returned c: the memcmp with the digest found
Compared(st, found, i, ret, log, c) ==
    VerifyLoop(c.st, found, i + 1,
               IF rr_digest(found[i]) # c.md_buf THEN 1 ELSE ret,
               Append(log, [op |-> "verify", before |-> StoreRRs(st),
                            digest |-> c.md_buf]))

\* the i-th RR after the check of its serial, which left ret
SerialChecked(st, found, i, ret, log) ==
    IF ~zonemd_digester(rr_digest_type(found[i]))
    THEN VerifyLoop(st, found, i + 1, ret, log)
    ELSE Compared(st, found, i, ret, log, zonemd_calc_digest(st))

VerifyLoop(st, found, i, ret, log) ==
    IF i > Len(found) THEN [st |-> st, rc |-> ret, log |-> log]
    ELSE SerialChecked(st, found, i,
                       IF rr_serial(found[i]) # rr_serial(the_soa) THEN 1 ELSE ret, log)

\* do_verify after zonemd_rr_find, which returned f
VerifyFound(f) == VerifyLoop(f.st, f.found, 1, 0, <<>>)

\* do_verify
do_verify(st) == VerifyFound(zonemd_rr_find(st))

\* ------------------------------------------------------------ inputs
\* the trees the -D and -W options are drawn from: <<depth, width>>
TreeShapes == {<<0, 13>>, <<1, 2>>, <<2, 13>>}

\* the -p options
PlaceholderOptions == {<<>>, <<1>>, <<1, 1>>}

\* the RRs a zone file is made of (besides its SOA): two A records whose
\* owners differ in case only, apex ZONEMDs with a zero digest, with a wrong
\* digest and of a digest type without digester, an apex ZONEMD and an RRSIG
\* over ZONEMD whose owner is the origin in upper case ("E."), an RRSIG over
\* A, and an A record outside of the zone
ZoneRRs ==
    { [owner |-> <<98, 101>>, type |-> LDNS_RR_TYPE_A, rd |-> <<1>>],
      [owner |-> <<66, 101>>, type |-> LDNS_RR_TYPE_A, rd |-> <<1>>],
      [owner |-> Origin, type |-> ZONEMD_RR_TYPE, rd |-> <<1, 1, 0>> \o ZeroDigest],
      [owner |-> Origin, type |-> ZONEMD_RR_TYPE, rd |-> <<1, 1, 0>> \o OnesDigest],
      [owner |-> Origin, type |-> ZONEMD_RR_TYPE, rd |-> <<1, 2, 0>> \o OnesDigest],
      [owner |-> <<69>>, type |-> ZONEMD_RR_TYPE, rd |-> <<1, 1, 0>> \o OnesDigest],
      [owner |-> <<69>>, type |-> LDNS_RR_TYPE_RRSIG, rd |-> <<ZONEMD_RR_TYPE, 7>>],
      [owner |-> <<98, 101>>, type |-> LDNS_RR_TYPE_RRSIG, rd |-> <<LDNS_RR_TYPE_A, 7>>],
      [owner |-> <<120>>, type |-> LDNS_RR_TYPE_A, rd |-> <<1>>] }

ZoneFiles == UNION {[1..n -> ZoneRRs] : n \in 0..MaxLoad}

\* the lines an update file is made of: they add or delete an RR the zone
\* may hold, or add an RR at the apex or outside of the zone
UpdateLines ==
    { [cmd |-> c, owner |-> <<98, 101>>, type |-> LDNS_RR_TYPE_A, rd |-> <<1>>] : c \in {"add", "del"} }
    \cup
    { [cmd |-> "add", owner |-> o, type |-> LDNS_RR_TYPE_A, rd |-> <<2>>] : o \in {Origin, <<120>>} }

UpdateFiles == UNION {[1..n -> UpdateLines] : n \in 0..MaxUpd}

\* ------------------------------------------------------------ main
Store == [l |-> the_rrlist, t |-> theTree]

\* the store an operation leaves
StoreIs(st) == the_rrlist' = st.l /\ theTree' = st.t

Init ==
    /\ mode \in {"flat", "tree"}
    /\ \E shape \in TreeShapes :
          /\ zonemd_tree_max_depth = (IF mode = "tree" THEN shape[1] ELSE 0)
          /\ zonemd_tree_max_width = (IF mode = "tree" THEN shape[2] ELSE 13)
    /\ algorithms \in PlaceholderOptions
    /\ calculate \in BOOLEAN
    /\ verify \in BOOLEAN
    /\ zsk \in BOOLEAN
    /\ calculate \/ ~zsk
    /\ the_rrlist = <<>>
    /\ theTree = (IF mode = "tree" THEN (<<>> :> NewNode) ELSE <<>>)
    /\ the_soa = MkRR(0, <<>>, 0, <<>>)
    /\ next_id = 1
    /\ pc = "read_zone"
    /\ rc = 0
    /\ err = "none"
    /\ calcs = <<>>
    /\ update_file = <<>>
    /\ output = <<>>

Options == <<mode, zonemd_tree_max_depth, zonemd_tree_max_width, algorithms,
             calculate, verify, zsk>>

\* the loop of zonemd_read_zone over the RRs of the zone, from the i-th on;
\* the i-th RR is object first + i
RECURSIVE ReadLoop(_, _, _, _)
ReadLoop(st, zone, i, first) ==
    IF i > Len(zone) THEN st
    ELSE LET rr == MkRR(first + i, zone[i].owner, zone[i].type, zone[i].rd)
         IN  IF \/ ldns_dname_compare(rr.owner, Origin) = 0
                \/ ldns_dname_is_subdomain(rr.owner, Origin)
             THEN ReadLoop(zonemd_add_rr(st, rr), zone, i + 1, first)
             ELSE ReadLoop(st, zone, i + 1, first)

\* zonemd_read_zone: the SOA first, then every RR that is in the zone
zonemd_read_zone(st, zone, first) ==
    ReadLoop(zonemd_add_rr(st, MkRR(first, Origin, LDNS_RR_TYPE_SOA, <<1>>)), zone, 1, first)

ReadZone ==
    /\ pc = "read_zone"
    /\ \E zone \in ZoneFiles :
          /\ StoreIs(zonemd_read_zone(Store, zone, next_id))
          /\ the_soa' = MkRR(next_id, Origin, LDNS_RR_TYPE_SOA, <<1>>)
          /\ next_id' = next_id + Len(zone) + 1
    /\ pc' = "placeholders"
    /\ UNCHANGED <<Options, rc, err, calcs, update_file, output>>

\* the loop of zonemd_add_placeholders over digest_types, from the i-th on
RECURSIVE PlaceholderLoop(_, _, _, _)
PlaceholderLoop(st, digest_types, i, id) ==
    IF i > Len(digest_types) THEN [st |-> st, err |-> "none", id |-> id]
    ELSE IF \E j \in 1..(i - 1) : digest_types[j] = digest_types[i]
    THEN PlaceholderLoop(st, digest_types, i + 1, id)
    ELSE IF ~zonemd_digester(digest_types[i])
    THEN [st |-> st, err |-> "assert", id |-> id]
    ELSE LET zonemd == zonemd_rr_pack([the_soa EXCEPT !.id = id, !.type = ZONEMD_RR_TYPE],
                                      rr_serial(the_soa), digest_types[i], ZeroDigest)
         IN  PlaceholderLoop(zonemd_add_rr(st, zonemd), digest_types, i + 1, id + 1)

\* zonemd_add_placeholders
zonemd_add_placeholders(st, digest_types, id) ==
    PlaceholderLoop(zonemd_remove_rr(st, ZONEMD_RR_TYPE, 0), digest_types, 1, id)

\* main after zonemd_add_placeholders, which returned r
PlaceholdersAdded(r) ==
    /\ the_rrlist' = r.st.l
    /\ theTree' = r.st.t
    /\ next_id' = r.id
    /\ err' = r.err
    /\ pc' = IF r.err = "none" THEN "calculate" ELSE "abort"

AddPlaceholders ==
    /\ pc = "placeholders"
    /\ PlaceholdersAdded(IF algorithms # <<>>
                         THEN zonemd_add_placeholders(Store, algorithms, next_id)
                         ELSE [st |-> Store, err |-> "none", id |-> next_id])
    /\ UNCHANGED <<Options, the_soa, rc, calcs, update_file, output>>

\* main after do_calculate, which returned r
CalculateDone(r, to) ==
    /\ the_rrlist' = r.st.l
    /\ theTree' = r.st.t
    /\ calcs' = calcs \o r.log
    /\ err' = r.err
    /\ pc' = IF r.err = "none" THEN to ELSE "abort"

\* main's "if (calculate) do_calculate(zsk_fname)", at from and going to to
CalculateStep(from, to) ==
    /\ pc = from
    /\ CalculateDone(IF calculate THEN do_calculate(Store, next_id)
                     ELSE [st |-> Store, err |-> "none", log |-> <<>>], to)
    /\ next_id' = next_id + 1
    /\ UNCHANGED <<Options, the_soa, rc, update_file, output>>

Calculate == CalculateStep("calculate", "verify")

\* main after do_verify, which returned r: "rc |= do_verify()"
VerifyDone(r) ==
    /\ the_rrlist' = r.st.l
    /\ theTree' = r.st.t
    /\ calcs' = calcs \o r.log
    /\ rc' = IF r.rc = 1 THEN 1 ELSE rc

Verify ==
    /\ pc = "verify"
    /\ VerifyDone(IF verify THEN do_verify(Store)
                  ELSE [st |-> Store, rc |-> 0, log |-> <<>>])
    /\ pc' = "update"
    /\ UNCHANGED <<Options, the_soa, next_id, err, update_file, output>>

\* the loop of zonemd_zone_update over the lines of the file, from the i-th
\* on: "add" adds the RR, "del" only counts
RECURSIVE UpdateLoop(_, _, _, _)
UpdateLoop(st, file, i, first) ==
    IF i > Len(file) THEN st
    ELSE IF file[i].cmd = "add"
    THEN UpdateLoop(zonemd_add_rr(st, MkRR(first + i - 1, file[i].owner, file[i].type, file[i].rd)),
                    file, i + 1, first)
    ELSE UpdateLoop(st, file, i + 1, first)

\* zonemd_zone_update
zonemd_zone_update(st, file, first) == UpdateLoop(st, file, 1, first)

ZoneUpdate ==
    /\ pc = "update"
    /\ \E file \in UpdateFiles :
          /\ StoreIs(zonemd_zone_update(Store, file, next_id))
          /\ update_file' = file
          /\ next_id' = next_id + Len(file)
    /\ pc' = "recalculate"
    /\ UNCHANGED <<Options, the_soa, rc, err, calcs, output>>

\* no -u option
NoUpdate ==
    /\ pc = "update"
    /\ pc' = "write"
    /\ UNCHANGED <<Options, the_rrlist, theTree, the_soa, next_id, rc, err, calcs,
                   update_file, output>>

Recalculate == CalculateStep("recalculate", "write")

\* zonemd_write_zone: the flat list is sorted in place, the tree's RRs are
\* gathered in a list of their own
WriteZone ==
    /\ pc = "write"
    /\ algorithms # <<>> \/ calculate
    /\ the_rrlist' = ldns_rr_list_sort(the_rrlist)
    /\ output' = ldns_rr_list_sort(StoreRRs(Store))
    /\ pc' = "exit"
    /\ UNCHANGED <<Options, theTree, the_soa, next_id, rc, err, calcs, update_file>>

\* no -o option, or nothing asked for that changes the zone
NoWrite ==
    /\ pc = "write"
    /\ pc' = "exit"
    /\ UNCHANGED <<Options, the_rrlist, theTree, the_soa, next_id, rc, err, calcs,
                   update_file, output>>

Next ==
    \/ ReadZone
    \/ AddPlaceholders
    \/ Calculate
    \/ Verify
    \/ ZoneUpdate
    \/ NoUpdate
    \/ Recalculate
    \/ WriteZone
    \/ NoWrite

Spec == Init /\ [][Next]_vars

\* ------------------------------------------------------------ properties
\* the store of a run that has added the RRs of rrlist, in that order, to
\* the empty store
RECURSIVE AddAll(_, _)
AddAll(st, rrlist) ==
    IF rrlist = <<>> THEN st
    ELSE AddAll(zonemd_add_rr(st, Head(rrlist)), Tail(rrlist))

EmptyStore ==
    [l |-> <<>>, t |-> IF mode = "tree" THEN (<<>> :> NewNode) ELSE <<>>]

\* the digest this build computes first for a zone made of rrlist
DigestOf(rrlist) == zonemd_calc_digest(AddAll(EmptyStore, rrlist)).md_buf

\* the digest the flat build computes for rrlist
FlatDigestOf(rrlist) == Hash(zonemd_rrlist_digest(rrlist))

\* an RR as the zone file states it: the RR without the identity of its object
Value(rr) == [owner |-> rr.owner, type |-> rr.type, ttl |-> rr.ttl, rd |-> rr.rd]

IsApexZonemd(rr) ==
    rr.type = ZONEMD_RR_TYPE /\ ldns_dname_compare(rr.owner, Origin) = 0

IsZonemdRrsig(rr) ==
    rr.type = LDNS_RR_TYPE_RRSIG /\ my_typecovered(rr) = ZONEMD_RR_TYPE

\* rrlist without its i-th RR
RemoveAt(rrlist, i) == SubSeq(rrlist, 1, i - 1) \o SubSeq(rrlist, i + 1, Len(rrlist))

\* C1 as claimed: the first digest of a run of the tree build, computed on
\* the tree as loaded, is the digest the flat build computes for the same
\* RRs, whatever the depth and the width of the tree.
C1_TreeEqualsFlat ==
    (mode = "tree" /\ calcs # <<>>) => calcs[1].digest = FlatDigestOf(calcs[1].before)

\* C1 as amended: with depth 0, where the root is the only node and a leaf,
\* the first digest of a run of the tree build is the digest the flat build
\* computes for the same RRs.
C1_TreeEqualsFlatAtDepth0 ==
    (mode = "tree" /\ zonemd_tree_max_depth = 0 /\ calcs # <<>>)
        => calcs[1].digest = FlatDigestOf(calcs[1].before)

\* C1's case: a tree of depth 0 holding a zone of several RRs, duplicates and
\* an apex ZONEMD among them, has had its digest computed
C1_Witness ==
    /\ mode = "tree" /\ zonemd_tree_max_depth = 0 /\ calcs # <<>>
    /\ Len(calcs[1].before) >= 3
    /\ \E i \in DOMAIN calcs[1].before : IsApexZonemd(calcs[1].before[i])
    /\ calcs[1].digest = FlatDigestOf(calcs[1].before)

\* the apex ZONEMDs that zonemd_rr_find returns from the store as it is
Found == zonemd_rr_find(Store).found

\* the digest that do_calculate and do_verify compute on the store as it is:
\* zonemd_rr_find, then zonemd_calc_digest
ComputedNow == zonemd_calc_digest(zonemd_rr_find(Store).st).md_buf

\* C2 as claimed: in the tree build, once a digest has been computed (which
\* leaves every node clean) and whatever RRs main has added and removed since
\* (zonemd_resign, zonemd_zone_update), computing the root digest gives the
\* digest of a fresh tree of the same depth and width loaded with the RRs
\* the tree holds.
C2_IncrementalIsFresh ==
    (mode = "tree" /\ calcs # <<>> /\ pc \in {"verify", "update", "recalculate", "write"})
        => ComputedNow = DigestOf(StoreRRs(Store))

\* C3 as claimed: when do_calculate has run to its end on a zone whose apex
\* ZONEMDs all have a digester and the serial of the SOA, and do_verify has
\* run right after it, do_verify has returned 0.
C3_VerifyAfterCalculate ==
    ( /\ pc = "update" /\ calculate /\ verify
      /\ Found # <<>>
      /\ \A i \in DOMAIN Found : /\ zonemd_digester(rr_digest_type(Found[i]))
                                 /\ rr_serial(Found[i]) = rr_serial(the_soa) )
        => rc = 0

\* the RRs of rrlist with the digest of every apex ZONEMD blanked
BlankDigests(rrlist) ==
    { IF IsApexZonemd(rrlist[i])
      THEN [rrlist[i] EXCEPT !.rd = SubSeq(@, 1, 3)] ELSE rrlist[i] : i \in DOMAIN rrlist }

\* C4 as claimed: two computations on stores that hold the same RRs and
\* differ at most in the digest bytes stored in the apex ZONEMDs give the
\* same digest; so the digest computed again after the first was written
\* into the apex ZONEMD is the first.
C4_SelfReferenceStable ==
    \A i, j \in DOMAIN calcs :
        BlankDigests(calcs[i].before) = BlankDigests(calcs[j].before)
            => calcs[i].digest = calcs[j].digest

\* rrlist in the order f, a permutation of its indices
Reordered(rrlist, f) == [i \in DOMAIN rrlist |-> rrlist[f[i]]]

\* C5 as claimed: the first digest of a run is the digest of the same RRs
\* added in any other order.
C5_OrderInsensitive ==
    calcs # <<>> =>
        \A f \in Permutations(DOMAIN calcs[1].before) :
            DigestOf(Reordered(calcs[1].before, f)) = calcs[1].digest

\* C6: the digest computed on the store as loaded, in the flat and in the
\* tree build, is the digest of the same RRs with one more copy of any of them
\* added (the store keeps both), and the digest of the same RRs without any
\* RR of which an identical copy comes before it.
C6_DuplicateIdempotent ==
    calcs # <<>> =>
        \A i \in DOMAIN calcs[1].before :
            /\ Len(StoreRRs(AddAll(EmptyStore, Append(calcs[1].before, calcs[1].before[i]))))
                   = Len(calcs[1].before) + 1
            /\ DigestOf(Append(calcs[1].before, [calcs[1].before[i] EXCEPT !.id = 0]))
                   = calcs[1].digest
            /\ (\E j \in 1..(i - 1) : Value(calcs[1].before[j]) = Value(calcs[1].before[i]))
                  => DigestOf(RemoveAt(calcs[1].before, i)) = calcs[1].digest

\* C6's case: the zone held an RR twice when its digest was computed, and
\* the digest is that of the zone holding it once
C6_Witness ==
    /\ calcs # <<>>
    /\ \E i, j \in DOMAIN calcs[1].before :
          /\ j < i
          /\ Value(calcs[1].before[j]) = Value(calcs[1].before[i])
          /\ calcs[1].before[i].type = LDNS_RR_TYPE_A
          /\ DigestOf(RemoveAt(calcs[1].before, i)) = calcs[1].digest

\* an RRSIG over ZONEMD at owner
ZonemdRrsig(owner) == MkRR(0, owner, LDNS_RR_TYPE_RRSIG, <<ZONEMD_RR_TYPE, 9>>)

\* C7 as claimed: the digest computed on the store as loaded, holding the
\* RRs L, is the digest of L without its RRSIGs over ZONEMD, of L with the
\* rdata of such an RRSIG changed, and of L with one more RRSIG over ZONEMD;
\* and it is not the digest of L without an RRSIG over another type that L
\* holds once.
C7_ZonemdRrsigIndependent ==
    calcs # <<>> =>
        /\ DigestOf(SelectSeq(calcs[1].before, LAMBDA rr : ~IsZonemdRrsig(rr))) = calcs[1].digest
        /\ \A owner \in {Origin, <<69>>, <<98, 101>>} :
              DigestOf(Append(calcs[1].before, ZonemdRrsig(owner))) = calcs[1].digest
        /\ \A i \in DOMAIN calcs[1].before :
              /\ IsZonemdRrsig(calcs[1].before[i])
                    => DigestOf([calcs[1].before EXCEPT ![i].rd = <<ZONEMD_RR_TYPE, 9>>])
                           = calcs[1].digest
              /\ ( /\ calcs[1].before[i].type = LDNS_RR_TYPE_RRSIG
                    /\ ~IsZonemdRrsig(calcs[1].before[i])
                    /\ \A j \in DOMAIN calcs[1].before :
                           j # i => Value(calcs[1].before[j]) # Value(calcs[1].before[i]) )
                    => DigestOf(RemoveAt(calcs[1].before, i)) # calcs[1].digest

\* C8 as claimed: do_calculate and do_verify come to their end only on a
\* store that holds a ZONEMD at the apex (else they end the run with the
\* fatal error), so past either of them there is one.
C8_NoZonemdIsFatal ==
    ( \/ calculate /\ pc \in {"verify", "update"}
      \/ verify /\ pc = "update" )
        => \E i \in DOMAIN StoreRRs(Store) : IsApexZonemd(StoreRRs(Store)[i])

\* C9 as claimed: when do_verify has met an apex ZONEMD of a digest type
\* without digester, it has gone on to the end of its pass and the exit code
\* of the run is 1.
C9_UnsupportedExitsNonZero ==
    ( /\ pc = "exit" /\ verify
      /\ \E i \in DOMAIN Found : ~zonemd_digester(rr_digest_type(Found[i])) )
        => rc = 1

\* C10 as claimed: after the update phase the store holds no RR with the
\* owner, type and rdata of an RR that a "del" line names (and no later line
\* adds again).
C10_DelRemoves ==
    pc = "recalculate" =>
        \A k \in DOMAIN update_file :
            ( /\ update_file[k].cmd = "del"
              /\ \A m \in (k + 1)..Len(update_file) : update_file[m].cmd # "add" )
                => \A i \in DOMAIN StoreRRs(Store) :
                       ~ ( /\ ldns_dname_compare(StoreRRs(Store)[i].owner, update_file[k].owner) = 0
                           /\ StoreRRs(Store)[i].type = update_file[k].type
                           /\ StoreRRs(Store)[i].rd = update_file[k].rd )

\* the digest types of types, each once, in the order of first occurrence
DistinctTypes(types) ==
    SelectSeq([i \in DOMAIN types |->
                  IF \E j \in 1..(i - 1) : types[j] = types[i] THEN -1 ELSE types[i]],
              LAMBDA x : x # -1)

\* the placeholder zonemd_add_placeholders makes for digest_type
IsPlaceholder(rr, digest_type) ==
    /\ rr.owner = the_soa.owner
    /\ rr.type = ZONEMD_RR_TYPE
    /\ rr.ttl = the_soa.ttl
    /\ rr.rd = <<rr_serial(the_soa), digest_type, 0>> \o ZeroDigest

\* the store that zonemd_add_placeholders leaves when main calls it now
PlaceholdersNow == zonemd_add_placeholders(Store, algorithms, next_id).st

\* C11 as claimed: when main is about to call zonemd_add_placeholders, the
\* call leaves a store whose apex ZONEMDs are the placeholders of the
\* distinct digest types asked for, one each and in the order of first
\* occurrence (so none of the apex ZONEMDs from before is left), and whose
\* other RRs are those from before.
C11_PlaceholdersReplaceZonemds ==
    (pc = "placeholders" /\ algorithms # <<>>) =>
        LET post == StoreRRs(PlaceholdersNow)
            zonemds == SelectSeq(post, IsApexZonemd)
        IN  /\ Len(zonemds) = Len(DistinctTypes(algorithms))
            /\ \A i \in DOMAIN zonemds : IsPlaceholder(zonemds[i], DistinctTypes(algorithms)[i])
            /\ SelectSeq(post, LAMBDA rr : ~IsApexZonemd(rr))
                   = SelectSeq(StoreRRs(Store), LAMBDA rr : ~IsApexZonemd(rr))

\* zonemd_read_zone's test of an owner: the origin, or a subdomain of it
InZone(owner) ==
    \/ ldns_dname_compare(owner, Origin) = 0
    \/ ldns_dname_is_subdomain(owner, Origin)

\* C12 as claimed: in every state of a run, every RR of the store has an
\* owner that is the origin or a subdomain of the origin.
C12_StoreIsInZone ==
    \A i \in DOMAIN StoreRRs(Store) : InZone(StoreRRs(Store)[i].owner)

\* the hash of the subtree of t rooted at p: of the hashes of its kids in
\* index order, or of the leaf's canonicalized list
RECURSIVE SubtreeHash(_, _)
RECURSIVE SubtreeKids(_, _, _)
SubtreeKids(t, p, branch) ==
    IF branch >= zonemd_tree_max_width THEN <<>>
    ELSE IF Append(p, branch) \notin DOMAIN t THEN SubtreeKids(t, p, branch + 1)
    ELSE SubtreeHash(t, Append(p, branch)) \o SubtreeKids(t, p, branch + 1)

SubtreeHash(t, p) ==
    IF IsInterior(p) THEN Hash(SubtreeKids(t, p, 0))
    ELSE Hash(zonemd_rrlist_digest(t[p].rrlist))

\* C13 as claimed: in the tree build, once a digest has been computed, every
\* node that is not dirty holds in its digest field the hash of the subtree
\* rooted at it.
C13_CleanNodeHoldsItsHash ==
    (mode = "tree" /\ calcs # <<>>) =>
        \A p \in DOMAIN theTree :
            ~theTree[p].dirty => theTree[p].digest = SubtreeHash(theTree, p)

\* the nodes from the root to the leaf of owner
PathNodes(owner) ==
    {SubSeq(LeafPath(rdf2str(owner)), 1, k) : k \in 0..zonemd_tree_max_depth}

\* every node of t from the root to the leaf of owner exists and is dirty
PathDirty(t, owner) == \A p \in PathNodes(owner) : p \in DOMAIN t /\ t[p].dirty

\* t holds the RR object id in the leaf of owner, and every node from the
\* root to that leaf is dirty
AddedAndDirty(t, owner, id) ==
    /\ PathDirty(t, owner)
    /\ \E i \in DOMAIN t[LeafPath(rdf2str(owner))].rrlist :
          t[LeafPath(rdf2str(owner))].rrlist[i].id = id

\* C14: in the tree build, in every state of a run, adding any RR leaves the
\* RR in the leaf of its owner and every node from the root to that leaf
\* dirty, and zonemd_remove_rr leaves every node from the root to the leaf
\* it went through dirty; so after zonemd_zone_update the nodes from the
\* root to the leaf of every RR added are dirty.
C14_DirtyPropagation ==
    mode = "tree" =>
        /\ \A z \in ZoneRRs :
              AddedAndDirty(zonemd_add_rr(Store, MkRR(0, z.owner, z.type, z.rd)).t, z.owner, 0)
        /\ PathDirty(zonemd_remove_rr(Store, ZONEMD_RR_TYPE, 0).t, Origin)
        /\ PathDirty(zonemd_remove_rr(Store, LDNS_RR_TYPE_RRSIG, ZONEMD_RR_TYPE).t, Origin)
        /\ pc = "recalculate" =>
              \A k \in DOMAIN update_file :
                  update_file[k].cmd = "add" => PathDirty(theTree, update_file[k].owner)

\* C14's case: a tree of depth 1 or more, left clean by a computation, to
\* which zonemd_zone_update has added an RR: the nodes from the root to its
\* leaf are dirty, and a node off that way is still clean
C14_Witness ==
    /\ mode = "tree" /\ zonemd_tree_max_depth >= 1
    /\ pc = "recalculate" /\ calcs # <<>>
    /\ \E k \in DOMAIN update_file :
          /\ update_file[k].cmd = "add"
          /\ PathDirty(theTree, update_file[k].owner)
          /\ \E p \in DOMAIN theTree :
                p \notin PathNodes(update_file[k].owner) /\ ~theTree[p].dirty

\* C15 as claimed: in the tree build, in every state of a run, two RRs
\* whose owners compare equal are in the same leaf, and every RR whose owner
\* compares equal to the origin is in the leaf that zonemd_rr_find and
\* zonemd_remove_rr go through.
C15_SameOwnerSameLeaf ==
    mode = "tree" =>
        /\ \A p, q \in DOMAIN theTree :
              \A i \in DOMAIN theTree[p].rrlist, j \in DOMAIN theTree[q].rrlist :
                  ldns_dname_compare(theTree[p].rrlist[i].owner, theTree[q].rrlist[j].owner) = 0
                      => p = q
        /\ \A p \in DOMAIN theTree :
              \A i \in DOMAIN theTree[p].rrlist :
                  ldns_dname_compare(theTree[p].rrlist[i].owner, Origin) = 0
                      => p = LeafPath(rdf2str(Origin))

\* C16 as claimed: where do_calculate and do_verify call zonemd_rr_find, the
\* call returns the apex ZONEMDs of the store and leaves the store as it
\* was: the RRs, the nodes, their dirty flags and their digests.
C16_FindIsPure ==
    pc \in {"calculate", "verify", "recalculate"} =>
        /\ zonemd_rr_find(Store).found = SelectSeq(StoreRRs(Store), IsApexZonemd)
        /\ zonemd_rr_find(Store).st = Store

====
